---- MODULE Spec2Model ----
(***************************************************************************)
(* A model of the type-erased allocation arena (src/src/lib.rs) and of the *)
(* lock-free list that holds its records (src/src/utils/linked_list.rs).   *)
(*                                                                         *)
(* Pointers are indices: a node pointer indexes `nodes`, an object pointer *)
(* indexes `heap`, an Arc<Cell<bool>> indexes `flags`.  Index 0 is the     *)
(* null node pointer and the dangling object pointer respectively.         *)
(***************************************************************************)
EXTENDS Integers, Sequences, FiniteSets, TLC

\* ---- bounds -------------------------------------------------------------
NumThreads == 2          \* threads that call Arena::alloc concurrently
MaxAllocs == 3           \* allocations made over the life of the arena
MaxClones == 1           \* AllocRef::clone calls
MaxLinks == 1            \* handles stored into allocated values
MaxFails == 1            \* memory reservations that fail

Threads == 1..NumThreads
Zeroed == 0                              \* what a Mock's destructor writes
Data == {10 * k : k \in 1..MaxAllocs} \cup {Zeroed}   \* the `data` fields of the Mocks
Null == 0                \* core::ptr::null_mut()
Dangling == 0            \* NonNull::dangling()
ZstData == 0             \* the one value of a zero-sized type

\* A handle slot that holds no handle (Option::None for `another`).
NoHandle == [kind |-> "None", value |-> Dangling, dropped |-> 0, of |-> 0, st |-> "none"]

\* The types of the values passed to alloc: a zero-sized type with a
\* destructor (tests::arena_tests::test_drop_zst) or a Mock carrying data and
\* an optional handle to another allocation (tests::*::test_use_dropped_value).
Types == {"Zst", "Mock"}

\* Layout::new::<T>().size(), up to what the code distinguishes (zero or not).
LayoutSize(ty) == IF ty = "Zst" THEN 0 ELSE 1

VARIABLES
    head,           \* ConcurrentLinkedList.head
    nodes,          \* every ConcurrentLinkedListNode ever boxed: [_value, next],
                    \* with the history of its insertion: by, start, retries, replaced
    heap,           \* memory returned by alloc(layout): [live, data, another]
    flags,          \* every Arc<Cell<bool>> ever created
    pc,             \* per thread: position inside Arena::alloc / push_front
    node,           \* per thread: push_front's local `node`
    previous_head,  \* per thread: push_front's local `previous_head`
    arg,            \* per thread: the value passed to the current/last alloc, and
                    \* which of alloc / alloc_unchecked was called
    ret,            \* per thread: index in `hs` of what the call returned
    got,            \* per thread: what get() on that handle read right after
    hs,             \* the caller's handle slots: [kind, value, dropped, of, st];
                    \* kind "Raw" is the plain reference alloc_unchecked returns
    arena,          \* position inside the arena's drop
    cur,            \* the node taken by the running iteration of the drop loop
    log,            \* destructor runs, in order: [n, data, at, end]
    lastOp          \* the handle operation the last step performed, and its outcome

vars == <<head, nodes, heap, flags, pc, node, previous_head, arg, ret, got, hs,
          arena, cur, log, lastOp>>

\* ---- helpers ------------------------------------------------------------
\* The Mock passed to the next alloc: the Mocks carry 10, 20, 30, ... in
\* allocation order, as in the tests.  `output` says whether the Mock has
\* somewhere to report to (tests::alloc_ref_tests: output is Some or None).
MockValue(out) == [ty |-> "Mock", data |-> 10 * (Len(flags) + 1), output |-> out]

\* The value of type ty passed to the next alloc; a Mock with an output.
Value(ty) ==
    IF ty = "Zst" THEN [ty |-> "Zst", data |-> ZstData, output |-> FALSE]
    ELSE MockValue(TRUE)

NodeIds == 1..Len(nodes)

\* The node pointers met by following `next` from p (at most k of them).
RECURSIVE Chain(_, _)
Chain(p, k) ==
    IF p = Null \/ k = 0 THEN <<>>
    ELSE <<p>> \o Chain(nodes[p].next, k - 1)

\* The store as a traversal from the head would see it.
List == Chain(head, Len(nodes) + 1)

Range(s) == {s[i] : i \in 1..Len(s)}

NoOp == [op |-> "none", kind |-> "None", flag |-> FALSE, res |-> "none",
         hit |-> FALSE, val |-> 0]

\* ---- ArenaBox -----------------------------------------------------------
\* No record: the `arena_box` of a thread that has built none.
NoBox == [object |-> Dangling, object_layout |-> 0, dropped |-> 0]

\* ArenaBox::new: the box built for a value of type ty.  For a non-zero size
\* the object lives in a fresh heap cell; for size zero it is dangling.
ArenaBox_new(ty) ==
    [object |-> IF LayoutSize(ty) = 0 THEN Dangling ELSE Len(heap) + 1,
     object_layout |-> LayoutSize(ty),
     dropped |-> Len(flags) + 1]

\* The initial value of the flag ArenaBox::new creates: Arc::new(Cell::new(false)).
NewFlag == FALSE

\* The flag left as it is.
mark_as_dropped_off(box, fl) == fl

\* One flag shared by the whole arena: marking a record marks them all.
mark_as_dropped_all(box, fl) == [f \in DOMAIN fl |-> TRUE]

\* ArenaBox::mark_as_dropped: self.dropped.set(true).
mark_as_dropped(box, fl) == [fl EXCEPT ![box.dropped] = TRUE]

\* ArenaBox::new moves `value` into the reserved memory with ptr::write only
\* on the non-zero-size branch; on the zero-size branch `value` is still owned
\* by the function when it returns, so it is dropped there.
ArenaBox_new_drops_value(ty) == LayoutSize(ty) = 0

\* ---- handles: AllocMut / AllocRef ---------------------------------------
Panic == [res |-> "panic", ptr |-> Dangling]
Reference(p) == [res |-> "ref", ptr |-> p]
Bool(b) == [res |-> IF b THEN "true" ELSE "false", ptr |-> Dangling]

\* AllocMut::dropped: self.dropped.get().
AllocMut_dropped(h) == flags[h.dropped]

\* The assertion left out.
AllocMut_ensure_not_dropped_off(h) == TRUE

\* AllocMut::ensure_not_dropped: TRUE iff the assertion passes.
AllocMut_ensure_not_dropped(h) == ~AllocMut_dropped(h)

AllocMut_get(h) == IF AllocMut_ensure_not_dropped(h) THEN Reference(h.value) ELSE Panic
AllocMut_get_mut(h) == IF AllocMut_ensure_not_dropped(h) THEN Reference(h.value) ELSE Panic
AllocMut_leak(h) == IF AllocMut_ensure_not_dropped(h) THEN Reference(h.value) ELSE Panic
AllocMut_get_unchecked(h) == Reference(h.value)
AllocMut_get_mut_unchecked(h) == Reference(h.value)
AllocMut_leak_unchecked(h) == Reference(h.value)

\* The trait implementations of AllocMut.
AllocMut_as_ref(h) == AllocMut_get(h)
AllocMut_as_mut(h) == AllocMut_get_mut(h)
AllocMut_borrow(h) == AllocMut_get(h)
AllocMut_borrow_mut(h) == AllocMut_get_mut(h)
AllocMut_fmt_debug(h) == AllocMut_get(h)
AllocMut_deref(h) == AllocMut_get(h)
\* DerefMut through the unchecked accessor.
AllocMut_deref_mut_unchecked(h) == AllocMut_get_mut_unchecked(h)
AllocMut_deref_mut(h) == AllocMut_get_mut(h)
AllocMut_fmt_display(h) == AllocMut_get(h)

\* dropped() answering with the flag's initial value instead of reading it.
AllocRef_dropped_initial(h) == FALSE

\* AllocRef::dropped: self.dropped.get().
AllocRef_dropped(h) == flags[h.dropped]

\* AllocRef::ensure_not_dropped: TRUE iff the assertion passes.
AllocRef_ensure_not_dropped(h) == ~AllocRef_dropped(h)

AllocRef_get(h) == IF AllocRef_ensure_not_dropped(h) THEN Reference(h.value) ELSE Panic
AllocRef_leak(h) == IF AllocRef_ensure_not_dropped(h) THEN Reference(h.value) ELSE Panic
AllocRef_get_unchecked(h) == Reference(h.value)
AllocRef_leak_unchecked(h) == Reference(h.value)

\* The trait implementations of AllocRef.  Debug and Display format
\* self.value directly.
AllocRef_as_ref(h) == AllocRef_get(h)
AllocRef_borrow(h) == AllocRef_get(h)
AllocRef_fmt_debug(h) == Reference(h.value)
AllocRef_deref(h) == AllocRef_get(h)
AllocRef_fmt_display(h) == Reference(h.value)

\* The conversion picking up the flag of the first allocation instead of the
\* handle's own.
AllocRef_from_other_flag(ptr) ==
    [kind |-> "AllocRef", value |-> ptr.value, dropped |-> 1,
     of |-> ptr.of, st |-> "held"]

\* impl From<AllocMut> for AllocRef: both fields are moved over.
AllocRef_from(ptr) ==
    [kind |-> "AllocRef", value |-> ptr.value, dropped |-> ptr.dropped,
     of |-> ptr.of, st |-> "held"]

\* #[derive(Clone)] on AllocRef: the reference is copied, the Arc is cloned
\* (another pointer to the same cell).
AllocRef_clone(h) ==
    [kind |-> "AllocRef", value |-> h.value, dropped |-> h.dropped,
     of |-> h.of, st |-> "held"]

MutOps == {"get", "get_mut", "leak", "get_unchecked", "get_mut_unchecked",
           "leak_unchecked", "dropped", "as_ref", "as_mut", "borrow",
           "borrow_mut", "fmt_debug", "deref", "deref_mut", "fmt_display"}
RefOps == {"get", "leak", "get_unchecked", "leak_unchecked", "dropped", "as_ref",
           "borrow", "fmt_debug", "deref", "fmt_display"}
OpsOf(kind) ==
    IF kind = "AllocMut" THEN MutOps
    ELSE IF kind = "AllocRef" THEN RefOps
    ELSE {}

\* The operations that take the handle by value.
Consuming == {"leak", "leak_unchecked"}
\* The operations that hand the value to a formatter, which reads it.
Formatting == {"fmt_debug", "fmt_display"}

\* Method dispatch: the outcome of h.op().
Call(h, op) ==
    IF h.kind = "AllocMut" THEN
        CASE op = "get" -> AllocMut_get(h)
          [] op = "get_mut" -> AllocMut_get_mut(h)
          [] op = "leak" -> AllocMut_leak(h)
          [] op = "get_unchecked" -> AllocMut_get_unchecked(h)
          [] op = "get_mut_unchecked" -> AllocMut_get_mut_unchecked(h)
          [] op = "leak_unchecked" -> AllocMut_leak_unchecked(h)
          [] op = "dropped" -> Bool(AllocMut_dropped(h))
          [] op = "as_ref" -> AllocMut_as_ref(h)
          [] op = "as_mut" -> AllocMut_as_mut(h)
          [] op = "borrow" -> AllocMut_borrow(h)
          [] op = "borrow_mut" -> AllocMut_borrow_mut(h)
          [] op = "fmt_debug" -> AllocMut_fmt_debug(h)
          [] op = "deref" -> AllocMut_deref(h)
          [] op = "deref_mut" -> AllocMut_deref_mut(h)
          [] op = "fmt_display" -> AllocMut_fmt_display(h)
    ELSE
        CASE op = "get" -> AllocRef_get(h)
          [] op = "leak" -> AllocRef_leak(h)
          [] op = "get_unchecked" -> AllocRef_get_unchecked(h)
          [] op = "leak_unchecked" -> AllocRef_leak_unchecked(h)
          [] op = "dropped" -> Bool(AllocRef_dropped(h))
          [] op = "as_ref" -> AllocRef_as_ref(h)
          [] op = "borrow" -> AllocRef_borrow(h)
          [] op = "fmt_debug" -> AllocRef_fmt_debug(h)
          [] op = "deref" -> AllocRef_deref(h)
          [] op = "fmt_display" -> AllocRef_fmt_display(h)

\* What reading through a reference yields.  A zero-sized value has one value;
\* an object whose destructor has run or whose memory was released is
\* undefined behaviour to read: any outcome.
Garbage == -1
NotRead == -2
Panicked == -3
Read(p) ==
    IF p = Dangling THEN {ZstData}
    ELSE IF heap[p].live THEN {heap[p].data}
    ELSE Data \cup {Garbage}

\* ---- the values' destructors --------------------------------------------
\* Drop for Mock (tests).  A Mock that holds an AllocMut in `another` writes
\* `another.data = 0` through DerefMut (alloc_mut_tests); a Mock that holds an
\* AllocRef reads `another.data` through Deref, and only if it has an output
\* to store it in (alloc_ref_tests).  TRUE iff the destructor uses its handle.
Mock_drop_uses(cell) ==
    \/ cell.another.kind = "AllocMut"
    \/ cell.another.kind = "AllocRef" /\ cell.output

\* The outcome of the access the destructor makes through its handle.
Mock_drop_access(cell) ==
    Call(cell.another, IF cell.another.kind = "AllocMut" THEN "deref_mut" ELSE "deref")

\* TRUE iff the destructor panics.
Mock_drop_panics(cell) ==
    /\ Mock_drop_uses(cell)
    /\ Mock_drop_access(cell).res = "panic"

\* The memory after the destructor of the Mock in `cell` has run to its end:
\* the write `another.data = 0` through an AllocMut.  (What is read through
\* an AllocRef goes to the caller's `output`, outside the arena.)
Mock_drop_writes(cell, mem) ==
    IF cell.another.kind = "AllocMut" /\ Mock_drop_access(cell).res = "ref"
    THEN [mem EXCEPT ![Mock_drop_access(cell).ptr].data = Zeroed]
    ELSE mem

\* ---- initial state ------------------------------------------------------
\* Arena::new / ConcurrentLinkedList::new: an empty store.
Init ==
    /\ head = Null
    /\ nodes = <<>>
    /\ heap = <<>>
    /\ flags = <<>>
    /\ pc = [t \in Threads |-> "idle"]
    /\ node = [t \in Threads |-> Null]
    /\ previous_head = [t \in Threads |-> Null]
    /\ arg = [t \in Threads |-> [ty |-> "Zst", data |-> ZstData, output |-> FALSE,
                                 call |-> "alloc", box |-> NoBox]]
    /\ ret = [t \in Threads |-> 0]
    /\ got = [t \in Threads |-> NotRead]
    /\ hs = <<>>
    /\ arena = "alive"
    /\ cur = Null
    /\ log = <<>>
    /\ lastOp = NoOp

\* ---- Arena::alloc and ConcurrentLinkedList::push_front ------------------
\* A node that no compare-exchange has published yet.
Unpublished == -1

\* The record of a destructor run names its node; a value dropped inside
\* ArenaBox::new has no node yet, and is named by its thread until
\* push_front has boxed the node.
Pending(t) == 0 - t

\* The first statement Arena::alloc and Arena::alloc_unchecked share:
\* `let arena_box = ArenaBox::new(value)`.  It reserves the memory, moves the
\* value in and creates the flag; a zero-sized value is dropped when
\* ArenaBox::new returns.  push_front has not been called yet.
arena_push(t, v, call) ==
    /\ arena = "alive"
    /\ pc[t] = "idle"
    /\ Len(flags) < MaxAllocs
    /\ LET box == ArenaBox_new(v.ty) IN
        /\ heap' = IF box.object = Dangling THEN heap
                   ELSE Append(heap, [live |-> TRUE, data |-> v.data,
                                      another |-> NoHandle, output |-> v.output])
        /\ flags' = Append(flags, NewFlag)
        /\ log' = IF ArenaBox_new_drops_value(v.ty)
                  THEN Append(log, [n |-> Pending(t), data |-> v.data, at |-> "new",
                                   end |-> "nodealloc"])
                  ELSE log
        /\ arg' = [arg EXCEPT ![t] = [ty |-> v.ty, data |-> v.data,
                                      output |-> v.output, call |-> call,
                                      box |-> box]]
    /\ ret' = [ret EXCEPT ![t] = 0]
    /\ got' = [got EXCEPT ![t] = NotRead]
    /\ pc' = [pc EXCEPT ![t] = "push"]
    /\ UNCHANGED <<head, nodes, node, previous_head, hs, arena, cur>>
    /\ lastOp' = NoOp

\* push_front(arena_box) up to its first read of the head: the node is
\* boxed around the record and the head is loaded.  While its insertion is in
\* progress the node remembers the head read here (start) and the number of
\* failed compare-exchanges (retries); once published, the head its
\* compare-exchange replaced (replaced).
push_front_begin(t) ==
    /\ pc[t] = "push"
    /\ nodes' = Append(nodes, [_value |-> arg[t].box, next |-> Null, by |-> t,
                               start |-> head, retries |-> 0,
                               replaced |-> Unpublished])
    /\ node' = [node EXCEPT ![t] = Len(nodes) + 1]
    /\ previous_head' = [previous_head EXCEPT ![t] = head]
    /\ log' = [k \in 1..Len(log) |->
                IF log[k].n = Pending(t) THEN [log[k] EXCEPT !.n = Len(nodes) + 1]
                ELSE log[k]]
    /\ pc' = [pc EXCEPT ![t] = "store"]
    /\ UNCHANGED <<head, heap, flags, arg, ret, got, hs, arena, cur>>
    /\ lastOp' = NoOp

\* Arena::alloc(value): its first statement, ArenaBox::new.
alloc_begin(t, v) == arena_push(t, v, "alloc")

\* alloc_unchecked building the record and returning the reference without
\* inserting the record into the store.
alloc_unchecked_begin_unlinked(t, v) ==
    /\ arena = "alive"
    /\ pc[t] = "idle"
    /\ Len(flags) < MaxAllocs
    /\ LET box == ArenaBox_new(v.ty) IN
        /\ heap' = IF box.object = Dangling THEN heap
                   ELSE Append(heap, [live |-> TRUE, data |-> v.data,
                                      another |-> NoHandle, output |-> v.output])
        /\ flags' = Append(flags, NewFlag)
        /\ log' = IF ArenaBox_new_drops_value(v.ty)
                  THEN Append(log, [n |-> Len(nodes) + 1, data |-> v.data, at |-> "new",
                                   end |-> "nodealloc"])
                  ELSE log
        /\ nodes' = Append(nodes, [_value |-> box, next |-> Null, by |-> t,
                                   start |-> head, retries |-> 0,
                                   replaced |-> Unpublished])
        /\ hs' = Append(hs, [kind |-> "Raw", value |-> box.object, dropped |-> 0,
                             of |-> Len(nodes) + 1, st |-> "held"])
        /\ arg' = [arg EXCEPT ![t] = [ty |-> v.ty, data |-> v.data,
                                      output |-> v.output,
                                      call |-> "alloc_unchecked", box |-> box]]
    /\ node' = [node EXCEPT ![t] = Len(nodes) + 1]
    /\ ret' = [ret EXCEPT ![t] = Len(hs) + 1]
    /\ got' = [got EXCEPT ![t] = NotRead]
    /\ UNCHANGED <<head, pc, previous_head, arena, cur>>
    /\ lastOp' = NoOp

\* Arena::alloc_unchecked(value): its first statement, ArenaBox::new.
alloc_unchecked_begin(t, v) == arena_push(t, v, "alloc_unchecked")

\* Memory asked for whatever the size.
ArenaBox_new_reserves_always(ty) == TRUE

\* ArenaBox::new asks the allocator for memory only on the non-zero-size
\* branch.
ArenaBox_new_reserves(ty) == LayoutSize(ty) # 0

\* The failed reservations so far.
Fails == Cardinality({k \in 1..Len(log) : log[k].at = "unwind"})

\* Arena::alloc / Arena::alloc_unchecked when alloc(layout) returns null:
\* `.expect("alloc returns null pointer")` panics inside ArenaBox::new, before
\* ptr::write, the flag and push_front.  `value` is still owned by
\* ArenaBox::new, so the unwinding runs its destructor.  The value passed is
\* of any type for which ArenaBox::new asks for memory.
alloc_fail(t, call) ==
    /\ arena = "alive"
    /\ pc[t] = "idle"
    /\ Len(flags) < MaxAllocs
    /\ Fails < MaxFails
    /\ \E ty \in {u \in Types : ArenaBox_new_reserves(u)} :
        LET v == Value(ty) IN
        /\ log' = Append(log, [n |-> 0, data |-> v.data, at |-> "unwind",
                               end |-> "nodealloc"])
        /\ arg' = [arg EXCEPT ![t] = [ty |-> v.ty, data |-> v.data,
                                      output |-> v.output, call |-> call,
                                      box |-> NoBox]]
    /\ ret' = [ret EXCEPT ![t] = 0]
    /\ got' = [got EXCEPT ![t] = NotRead]
    /\ UNCHANGED <<head, nodes, heap, flags, pc, node, previous_head, hs, arena, cur>>
    /\ lastOp' = NoOp

\* The successor link written on the first pass of the loop only: a retry
\* keeps the link to the head read first.
push_front_store_first_only(t) ==
    /\ pc[t] = "store"
    /\ nodes' = IF nodes[node[t]].retries = 0
                THEN [nodes EXCEPT ![node[t]].next = previous_head[t]]
                ELSE nodes
    /\ pc' = [pc EXCEPT ![t] = "cas"]
    /\ UNCHANGED <<head, heap, flags, node, previous_head, arg, ret, got, hs, arena, cur,
                   log>>
    /\ lastOp' = NoOp

\* push_front: node.next.store(previous_head).
push_front_store(t) ==
    /\ pc[t] = "store"
    /\ nodes' = [nodes EXCEPT ![node[t]].next = previous_head[t]]
    /\ pc' = [pc EXCEPT ![t] = "cas"]
    /\ UNCHANGED <<head, heap, flags, node, previous_head, arg, ret, got, hs, arena, cur,
                   log>>
    /\ lastOp' = NoOp

\* The handle made from the object reserved last, by whichever thread.
alloc_handle_latest(t) ==
    [kind |-> "AllocMut",
     value |-> IF nodes[node[t]]._value.object = Dangling THEN Dangling ELSE Len(heap),
     dropped |-> nodes[node[t]]._value.dropped,
     of |-> node[t],
     st |-> "held"]

\* The handle Arena::alloc returns for the record it has just pushed.
alloc_handle(t) ==
    [kind |-> "AllocMut",
     value |-> nodes[node[t]]._value.object,
     dropped |-> nodes[node[t]]._value.dropped,
     of |-> node[t],
     st |-> "held"]

\* The reference Arena::alloc_unchecked returns for the record it has just
\* pushed: object_ptr.cast().as_mut(), with no flag attached.
alloc_unchecked_ref(t) ==
    [kind |-> "Raw",
     value |-> nodes[node[t]]._value.object,
     dropped |-> 0,
     of |-> node[t],
     st |-> "held"]

\* One more failed compare-exchange; the count stops at MaxAllocs, which it
\* cannot reach while every failure answers another thread's insertion.
Counted(r) == IF r < MaxAllocs THEN r + 1 ELSE r

\* The head replaced unconditionally (a store instead of a compare-exchange).
push_front_cas_blind(t) ==
    /\ pc[t] = "cas"
    /\ head' = node[t]
    /\ hs' = Append(hs, [kind |-> "AllocMut",
                         value |-> nodes[node[t]]._value.object,
                         dropped |-> nodes[node[t]]._value.dropped,
                         of |-> node[t], st |-> "held"])
    /\ ret' = [ret EXCEPT ![t] = Len(hs) + 1]
    /\ pc' = [pc EXCEPT ![t] = "idle"]
    /\ UNCHANGED <<nodes, heap, flags, node, previous_head, arg, got, arena, cur, log>>
    /\ lastOp' = NoOp

\* The node linked in behind the current head rather than installed as the
\* head (the head changes only when the list is empty).
push_front_cas_behind(t) ==
    /\ pc[t] = "cas"
    /\ IF head = previous_head[t]
       THEN /\ head' = IF head = Null THEN node[t] ELSE head
            /\ nodes' = IF head = Null
                        THEN [nodes EXCEPT ![node[t]] =
                                [@ EXCEPT !.replaced = head, !.start = Null,
                                          !.retries = 0]]
                        ELSE [nodes EXCEPT
                                ![node[t]] = [@ EXCEPT !.replaced = head, !.start = Null,
                                                       !.retries = 0,
                                                       !.next = nodes[head].next],
                                ![head] = [@ EXCEPT !.next = node[t]]]
            /\ hs' = Append(hs, IF arg[t].call = "alloc" THEN alloc_handle(t)
                                ELSE alloc_unchecked_ref(t))
            /\ ret' = [ret EXCEPT ![t] = Len(hs) + 1]
            /\ pc' = [pc EXCEPT ![t] = "idle"]
            /\ UNCHANGED previous_head
       ELSE /\ previous_head' = [previous_head EXCEPT ![t] = head]
            /\ nodes' = [nodes EXCEPT ![node[t]].retries = Counted(@)]
            /\ pc' = [pc EXCEPT ![t] = "store"]
            /\ UNCHANGED <<head, hs, ret>>
    /\ UNCHANGED <<heap, flags, node, arg, got, arena, cur, log>>
    /\ lastOp' = NoOp

\* A retry that boxes a second node for the same record instead of reusing
\* the node it has.
push_front_cas_renode(t) ==
    /\ pc[t] = "cas"
    /\ IF head = previous_head[t]
       THEN /\ head' = node[t]
            /\ nodes' = [nodes EXCEPT ![node[t]] =
                            [@ EXCEPT !.replaced = head, !.start = Null, !.retries = 0]]
            /\ hs' = Append(hs, IF arg[t].call = "alloc" THEN alloc_handle(t)
                                ELSE alloc_unchecked_ref(t))
            /\ ret' = [ret EXCEPT ![t] = Len(hs) + 1]
            /\ pc' = [pc EXCEPT ![t] = "idle"]
            /\ UNCHANGED <<previous_head, node>>
       ELSE /\ previous_head' = [previous_head EXCEPT ![t] = head]
            /\ nodes' = Append(nodes, [nodes[node[t]] EXCEPT !.retries = Counted(@)])
            /\ node' = [node EXCEPT ![t] = Len(nodes) + 1]
            /\ pc' = [pc EXCEPT ![t] = "store"]
            /\ UNCHANGED <<head, hs, ret>>
    /\ UNCHANGED <<heap, flags, arg, got, arena, cur, log>>
    /\ lastOp' = NoOp

\* A compare-exchange that may fail although the head is the expected one
\* (compare_exchange_weak).
push_front_cas_weak(t) ==
    /\ pc[t] = "cas"
    /\ \/ /\ head = previous_head[t]
          /\ head' = node[t]
          /\ nodes' = [nodes EXCEPT ![node[t]] =
                          [@ EXCEPT !.replaced = head, !.start = Null, !.retries = 0]]
          /\ hs' = Append(hs, IF arg[t].call = "alloc" THEN alloc_handle(t)
                              ELSE alloc_unchecked_ref(t))
          /\ ret' = [ret EXCEPT ![t] = Len(hs) + 1]
          /\ pc' = [pc EXCEPT ![t] = "idle"]
          /\ UNCHANGED previous_head
       \/ /\ previous_head' = [previous_head EXCEPT ![t] = head]
          /\ nodes' = [nodes EXCEPT ![node[t]].retries = Counted(@)]
          /\ pc' = [pc EXCEPT ![t] = "store"]
          /\ UNCHANGED <<head, hs, ret>>
    /\ UNCHANGED <<heap, flags, node, arg, got, arena, cur, log>>
    /\ lastOp' = NoOp

\* The compare-exchange whose failure leaves `previous_head` as it was, so
\* that the retry compares against the same stale head.
push_front_cas_stale(t) ==
    /\ pc[t] = "cas"
    /\ IF head = previous_head[t]
       THEN /\ head' = node[t]
            /\ nodes' = [nodes EXCEPT ![node[t]] =
                            [@ EXCEPT !.replaced = head, !.start = Null, !.retries = 0]]
            /\ hs' = Append(hs, IF arg[t].call = "alloc" THEN alloc_handle(t)
                                ELSE alloc_unchecked_ref(t))
            /\ ret' = [ret EXCEPT ![t] = Len(hs) + 1]
            /\ pc' = [pc EXCEPT ![t] = "idle"]
       ELSE /\ nodes' = [nodes EXCEPT ![node[t]].retries = Counted(@)]
            /\ pc' = [pc EXCEPT ![t] = "store"]
            /\ UNCHANGED <<head, hs, ret>>
    /\ UNCHANGED <<heap, flags, node, previous_head, arg, got, arena, cur, log>>
    /\ lastOp' = NoOp

\* push_front: head.compare_exchange(previous_head, node).  On success
\* push_front returns and Arena::alloc returns the handle (alloc_unchecked
\* the reference); on failure the loop retries with the head it observed.
push_front_cas(t) ==
    /\ pc[t] = "cas"
    /\ IF head = previous_head[t]
       THEN /\ head' = node[t]
            /\ nodes' = [nodes EXCEPT ![node[t]] =
                            [@ EXCEPT !.replaced = head, !.start = Null, !.retries = 0]]
            /\ hs' = Append(hs, IF arg[t].call = "alloc" THEN alloc_handle(t)
                                ELSE alloc_unchecked_ref(t))
            /\ ret' = [ret EXCEPT ![t] = Len(hs) + 1]
            /\ pc' = [pc EXCEPT ![t] = "idle"]
            /\ UNCHANGED previous_head
       ELSE /\ previous_head' = [previous_head EXCEPT ![t] = head]
            /\ nodes' = [nodes EXCEPT ![node[t]].retries = Counted(@)]
            /\ pc' = [pc EXCEPT ![t] = "store"]
            /\ UNCHANGED <<head, hs, ret>>
    /\ UNCHANGED <<heap, flags, node, arg, got, arena, cur, log>>
    /\ lastOp' = NoOp

\* `assert_eq!(*value.get(), v)` right after alloc (tests::arena_tests::
\* test_alloc): the thread reads through the handle it was just given.  The
\* handle borrows the arena, so the arena is alive.
alloc_then_get(t) ==
    /\ arena = "alive"
    /\ pc[t] = "idle"
    /\ ret[t] # 0
    /\ got[t] = NotRead
    /\ hs[ret[t]].st = "held"
    /\ hs[ret[t]].kind = "AllocMut"
    /\ LET r == Call(hs[ret[t]], "get") IN
        \E val \in (IF r.res = "ref" THEN Read(r.ptr) ELSE {Panicked}) :
            got' = [got EXCEPT ![t] = val]
    /\ UNCHANGED <<head, nodes, heap, flags, pc, node, previous_head, arg, ret, hs,
                   arena, cur, log>>
    /\ lastOp' = NoOp

\* `assert_eq!(*value, 10)` right after alloc_unchecked (tests::arena_tests::
\* test_alloc_unsafe): the thread reads through the reference it was given.
alloc_unchecked_then_read(t) ==
    /\ arena = "alive"
    /\ pc[t] = "idle"
    /\ ret[t] # 0
    /\ got[t] = NotRead
    /\ hs[ret[t]].st = "held"
    /\ hs[ret[t]].kind = "Raw"
    /\ \E val \in Read(hs[ret[t]].value) :
            got' = [got EXCEPT ![t] = val]
    /\ UNCHANGED <<head, nodes, heap, flags, pc, node, previous_head, arg, ret, hs,
                   arena, cur, log>>
    /\ lastOp' = NoOp

\* ---- the caller's use of its handles ------------------------------------
\* The thread that owns the arena and uses the handles.  It runs one call at
\* a time.
Caller == 1

Held == {i \in 1..Len(hs) : hs[i].st = "held"}

\* The threads that have built a record (ArenaBox::new has returned) and have
\* not entered push_front's body yet.
Building == {t \in Threads : pc[t] = "push"}

\* The number of alloc / alloc_unchecked calls that have returned.
Returned == Len(nodes) - Cardinality({t \in Threads : pc[t] \in {"store", "cas"}})

\* What is recorded of a call h.op() with outcome r: the operation, the handle
\* type, the liveness flag of the allocation h was made for as it was at the
\* call, the outcome, whether a returned reference refers to that allocation's
\* object, and what a formatter read.
Observed(h, op, r, val) ==
    [op |-> op, kind |-> h.kind, flag |-> flags[nodes[h.of]._value.dropped],
     res |-> r.res,
     hit |-> (r.res = "ref" /\ r.ptr = nodes[h.of]._value.object),
     val |-> val]

\* h.op() for a handle the caller holds.  The outcome is recorded; leak and
\* leak_unchecked take the handle by value.  A formatter reads the value.
handle_op(i, op) ==
    /\ pc[Caller] = "idle"
    /\ i \in Held
    /\ op \in OpsOf(hs[i].kind)
    /\ LET r == Call(hs[i], op) IN
        \E val \in (IF op \in Formatting /\ r.res = "ref" THEN Read(r.ptr) ELSE {0}) :
            lastOp' = Observed(hs[i], op, r, val)
    /\ hs' = IF op \in Consuming THEN [hs EXCEPT ![i] = NoHandle] ELSE hs
    /\ UNCHANGED <<head, nodes, heap, flags, pc, node, previous_head, arg, ret, got,
                   arena, cur, log>>

\* drop(handle), or the handle going out of scope.  Neither handle type has
\* a Drop impl: the reference is forgotten and the handle's Arc is released,
\* the record keeping its own.
handle_drop(i) ==
    /\ pc[Caller] = "idle"
    /\ i \in Held
    /\ hs' = [hs EXCEPT ![i] = NoHandle]
    /\ UNCHANGED <<head, nodes, heap, flags, pc, node, previous_head, arg, ret, got,
                   arena, cur, log>>
    /\ lastOp' = NoOp

\* AllocRef::from(handle): the mutable handle is consumed.
handle_from(i) ==
    /\ pc[Caller] = "idle" /\ arena = "alive"
    /\ i \in Held
    /\ hs[i].kind = "AllocMut"
    /\ hs' = [hs EXCEPT ![i] = AllocRef_from(hs[i])]
    /\ UNCHANGED <<head, nodes, heap, flags, pc, node, previous_head, arg, ret, got,
                   arena, cur, log>>
    /\ lastOp' = NoOp

\* handle.clone() on an immutable handle.
handle_clone(i) ==
    /\ pc[Caller] = "idle" /\ arena = "alive"
    /\ i \in Held
    /\ hs[i].kind = "AllocRef"
    /\ Len(hs) - Returned < MaxClones
    /\ hs' = Append(hs, AllocRef_clone(hs[i]))
    /\ UNCHANGED <<head, nodes, heap, flags, pc, node, previous_head, arg, ret, got,
                   arena, cur, log>>
    /\ lastOp' = NoOp

\* `first.another = Some(second)` (tests): the handle hs[j] is moved into the
\* Mock that hs[i] refers to, through DerefMut on hs[i].
set_another(i, j) ==
    /\ pc[Caller] = "idle" /\ arena = "alive"
    /\ i \in Held /\ j \in Held /\ i # j
    /\ hs[i].kind = "AllocMut"
    /\ hs[j].kind \in {"AllocMut", "AllocRef"}
    /\ hs[i].value # Dangling
    /\ Cardinality({a \in 1..Len(heap) : heap[a].another # NoHandle}) < MaxLinks
    /\ LET r == AllocMut_deref_mut(hs[i]) IN
        /\ lastOp' = Observed(hs[i], "deref_mut", r, 0)
        /\ heap' = IF r.res = "ref"
                   THEN [heap EXCEPT ![r.ptr].another = [hs[j] EXCEPT !.st = "field"]]
                   ELSE heap
    /\ hs' = [hs EXCEPT ![j] = NoHandle]
    /\ UNCHANGED <<head, nodes, flags, pc, node, previous_head, arg, ret, got,
                   arena, cur, log>>

\* ---- teardown -----------------------------------------------------------
\* drop(arena): it needs the arena by value, so no alloc is in progress.
arena_drop ==
    /\ arena = "alive"
    /\ \A t \in Threads : pc[t] = "idle"
    /\ arena' = "loop"
    /\ UNCHANGED <<head, nodes, heap, flags, pc, node, previous_head, arg, ret, got, hs,
                   cur, log>>
    /\ lastOp' = NoOp

\* The drop loop taking the node at the far end of the list instead of the head.
list_drop_next_fifo ==
    /\ arena = "loop"
    /\ IF head = Null
       THEN /\ arena' = "done"
            /\ UNCHANGED <<head, cur, nodes>>
       ELSE LET l == Chain(head, Len(nodes) + 1)
                last == l[Len(l)] IN
            /\ cur' = last
            /\ head' = IF Len(l) = 1 THEN Null ELSE head
            /\ nodes' = IF Len(l) = 1 THEN nodes
                        ELSE [nodes EXCEPT ![l[Len(l) - 1]].next = Null]
            /\ arena' = "box"
    /\ UNCHANGED <<heap, flags, pc, node, previous_head, arg, ret, got, hs, log>>
    /\ lastOp' = NoOp

\* The drop loop advancing the head past the successor of the node it takes.
list_drop_next_skip ==
    /\ arena = "loop"
    /\ IF head = Null
       THEN /\ arena' = "done"
            /\ UNCHANGED <<head, cur>>
       ELSE /\ cur' = head
            /\ head' = IF nodes[head].next = Null THEN Null
                       ELSE nodes[nodes[head].next].next
            /\ arena' = "box"
    /\ UNCHANGED <<nodes, heap, flags, pc, node, previous_head, arg, ret, got, hs,
                   log>>
    /\ lastOp' = NoOp

\* Drop for ConcurrentLinkedList, one iteration up to Box::from_raw(head):
\* load the head, stop if it is null, else advance the head to its successor.
list_drop_next ==
    /\ arena = "loop"
    /\ IF head = Null
       THEN /\ arena' = "done"
            /\ UNCHANGED <<head, cur>>
       ELSE /\ cur' = head
            /\ head' = nodes[head].next
            /\ arena' = "box"
    /\ UNCHANGED <<nodes, heap, flags, pc, node, previous_head, arg, ret, got, hs,
                   log>>
    /\ lastOp' = NoOp

\* Drop for ArenaBox going to the dropper without marking the record first.
box_drop_mark_skipped ==
    /\ arena = "box"
    /\ arena' = "dropper"
    /\ UNCHANGED <<head, nodes, heap, flags, pc, node, previous_head, arg, ret, got,
                   hs, cur, log>>
    /\ lastOp' = NoOp

\* Drop for ArenaBox, first statement: self.mark_as_dropped().
box_drop_mark ==
    /\ arena = "box"
    /\ flags' = mark_as_dropped(nodes[cur]._value, flags)
    /\ arena' = "dropper"
    /\ UNCHANGED <<head, nodes, heap, pc, node, previous_head, arg, ret, got, hs,
                   cur, log>>
    /\ lastOp' = NoOp

\* The dropper closure frees the memory only for a non-zero size.
dropper_deallocs(layout) == layout # 0

\* The drop loop going on to the next node after a destructor has panicked.
box_drop_dropper_resumes ==
    /\ arena = "dropper"
    /\ LET box == nodes[cur]._value IN
        IF box.object = Dangling
        THEN /\ log' = Append(log, [n |-> cur, data |-> ZstData, at |-> "teardown",
                                     end |-> IF dropper_deallocs(box.object_layout)
                                             THEN "dealloc" ELSE "nodealloc"])
             /\ heap' = heap
        ELSE LET cell == heap[box.object] IN
             /\ log' = Append(log, [n |-> cur, data |-> cell.data, at |-> "teardown",
                                     end |-> IF Mock_drop_panics(cell) THEN "panic"
                                             ELSE IF dropper_deallocs(box.object_layout)
                                             THEN "dealloc" ELSE "nodealloc"])
             /\ heap' = IF Mock_drop_panics(cell)
                        THEN [heap EXCEPT ![box.object].live = FALSE]
                        ELSE Mock_drop_writes(cell, [heap EXCEPT ![box.object].live = FALSE])
    /\ arena' = "loop"
    /\ UNCHANGED <<head, nodes, flags, pc, node, previous_head, arg, ret, got, hs,
                   cur>>
    /\ lastOp' = NoOp

\* Drop for ArenaBox, second statement: (self.dropper)(object, layout), that
\* is drop_in_place (the value's destructor, with what it writes through its
\* handle) and then dealloc.  A panic in the destructor unwinds out of the
\* list's drop loop.
box_drop_dropper ==
    /\ arena = "dropper"
    /\ LET box == nodes[cur]._value IN
        IF box.object = Dangling
        THEN /\ log' = Append(log, [n |-> cur, data |-> ZstData, at |-> "teardown",
                                     end |-> IF dropper_deallocs(box.object_layout)
                                             THEN "dealloc" ELSE "nodealloc"])
             /\ arena' = "loop"
             /\ heap' = heap
        ELSE LET cell == heap[box.object] IN
             IF Mock_drop_panics(cell)
             THEN /\ log' = Append(log, [n |-> cur, data |-> cell.data,
                                          at |-> "teardown", end |-> "panic"])
                  /\ arena' = "panicked"
                  /\ heap' = [heap EXCEPT ![box.object].live = FALSE]
             ELSE /\ log' = Append(log, [n |-> cur, data |-> cell.data, at |-> "teardown",
                                          end |-> IF dropper_deallocs(box.object_layout)
                                                  THEN "dealloc" ELSE "nodealloc"])
                  /\ arena' = "loop"
                  /\ heap' = Mock_drop_writes(cell, [heap EXCEPT ![box.object].live = FALSE])
    /\ UNCHANGED <<head, nodes, flags, pc, node, previous_head, arg, ret, got, hs,
                   cur>>
    /\ lastOp' = NoOp

\* ---- specifications -----------------------------------------------------
\* One caller: it allocates Mocks, converts and clones its handles, stores
\* handles in allocated values, and drops the arena.
Next ==
    \/ alloc_begin(Caller, Value("Mock"))
    \/ push_front_begin(Caller)
    \/ push_front_store(Caller)
    \/ push_front_cas(Caller)
    \/ \E i \in 1..Len(hs) : handle_from(i)
    \/ \E i \in 1..Len(hs) : handle_clone(i)
    \/ \E i \in 1..Len(hs), j \in 1..Len(hs) : set_another(i, j)
    \/ arena_drop
    \/ list_drop_next
    \/ box_drop_mark
    \/ box_drop_dropper

Spec == Init /\ [][Next]_vars

\* The allocations made by the caller that exercises the handles' methods.
HandleAllocs == MaxAllocs - 1

\* One caller that calls the handles' methods instead of storing handles in
\* values; the methods stay callable while and after the arena is dropped (a
\* destructor, or a caller that extended the handle's lifetime).
NextHandles ==
    \/ Len(flags) < HandleAllocs /\ alloc_begin(Caller, Value("Mock"))
    \/ push_front_begin(Caller)
    \/ push_front_store(Caller)
    \/ push_front_cas(Caller)
    \/ \E i \in 1..Len(hs), op \in MutOps : handle_op(i, op)
    \/ \E i \in 1..Len(hs) : handle_from(i)
    \/ \E i \in 1..Len(hs) : handle_clone(i)
    \/ arena_drop
    \/ list_drop_next
    \/ box_drop_mark
    \/ box_drop_dropper

SpecHandles == Init /\ [][NextHandles]_vars

\* The allocations made by the threads that read back what they allocate.
ConcAllocs == MaxAllocs - 1

\* Several threads allocate into one arena concurrently, each reading back
\* what it allocated; the arena is dropped once no alloc is in progress.
NextConc ==
    \/ /\ Len(flags) < ConcAllocs
       /\ \E t \in Threads, ty \in Types : alloc_begin(t, Value(ty))
    \/ \E t \in Threads : push_front_begin(t)
    \/ \E t \in Threads : push_front_store(t)
    \/ \E t \in Threads : push_front_cas(t)
    \/ \E t \in Threads : alloc_then_get(t)
    \/ arena_drop
    \/ list_drop_next
    \/ box_drop_mark
    \/ box_drop_dropper

SpecConc == Init /\ [][NextConc]_vars

\* ---- type invariant -----------------------------------------------------
\* One caller using both allocation calls on values of both types, with a
\* reservation that may fail, and the teardown.
NextAlloc ==
    \/ \E ty \in Types : alloc_begin(Caller, Value(ty))
    \/ \E ty \in Types : alloc_unchecked_begin(Caller, Value(ty))
    \/ \E call \in {"alloc", "alloc_unchecked"} : alloc_fail(Caller, call)
    \/ push_front_begin(Caller)
    \/ push_front_store(Caller)
    \/ push_front_cas(Caller)
    \/ alloc_then_get(Caller)
    \/ alloc_unchecked_then_read(Caller)
    \/ arena_drop
    \/ list_drop_next
    \/ box_drop_mark
    \/ box_drop_dropper

SpecAlloc == Init /\ [][NextAlloc]_vars

\* The list alone: threads insert Mocks concurrently, then the teardown.
NextList ==
    \/ \E t \in Threads : alloc_begin(t, Value("Mock"))
    \/ \E t \in Threads : push_front_begin(t)
    \/ \E t \in Threads : push_front_store(t)
    \/ \E t \in Threads : push_front_cas(t)
    \/ arena_drop
    \/ list_drop_next
    \/ box_drop_mark
    \/ box_drop_dropper

SpecList == Init /\ [][NextList]_vars

\* A step of thread t inside push_front.
push_front_step(t) == push_front_begin(t) \/ push_front_store(t) \/ push_front_cas(t)

\* A step of the list's drop.
teardown_step == list_drop_next \/ box_drop_mark \/ box_drop_dropper

\* The threads inside push_front keep taking steps, whichever of them.
SpecLockFree ==
    /\ Init /\ [][NextList]_vars
    /\ WF_vars(\E t \in Threads : push_front_step(t))

\* Every thread inside push_front keeps taking steps, and a drop that has
\* started runs on.
SpecFair ==
    /\ Init /\ [][NextList]_vars
    /\ \A t \in Threads : WF_vars(push_front_step(t))
    /\ WF_vars(teardown_step)

\* One caller storing handles, mutable or converted, in allocated values, and
\* the teardown running the values' destructors (tests::alloc_mut_tests,
\* tests::alloc_ref_tests).
NextLinks ==
    \/ \E out \in BOOLEAN : alloc_begin(Caller, MockValue(out))
    \/ push_front_begin(Caller)
    \/ push_front_store(Caller)
    \/ push_front_cas(Caller)
    \/ \E i \in 1..Len(hs) : handle_from(i)
    \/ \E i \in 1..Len(hs), j \in 1..Len(hs) : set_another(i, j)
    \/ arena_drop
    \/ list_drop_next
    \/ box_drop_mark
    \/ box_drop_dropper

SpecLinks == Init /\ [][NextLinks]_vars

\* The same caller, whose calls run on once begun, and a drop that runs on
\* once started (until a destructor's panic unwinds out of it).
SpecLinksFair ==
    /\ Init /\ [][NextLinks]_vars
    /\ WF_vars(push_front_step(Caller))
    /\ WF_vars(teardown_step)

\* One caller asking its handles, of both types, whether the allocation is
\* still there, before, during and after the teardown.
NextQuery ==
    \/ /\ Len(flags) < HandleAllocs
       /\ alloc_begin(Caller, Value("Mock"))
    \/ push_front_begin(Caller)
    \/ push_front_store(Caller)
    \/ push_front_cas(Caller)
    \/ \E i \in 1..Len(hs), op \in {"dropped", "get"} : handle_op(i, op)
    \/ \E i \in 1..Len(hs) : handle_from(i)
    \/ arena_drop
    \/ list_drop_next
    \/ box_drop_mark
    \/ box_drop_dropper

SpecQuery == Init /\ [][NextQuery]_vars

\* One caller allocating values of both types and giving its handles up
\* (drop, leak, conversion), and the teardown.
NextOwn ==
    \/ /\ Len(flags) < HandleAllocs
       /\ \E ty \in Types : alloc_begin(Caller, Value(ty))
    \/ push_front_begin(Caller)
    \/ push_front_store(Caller)
    \/ push_front_cas(Caller)
    \/ \E i \in 1..Len(hs) : handle_drop(i)
    \/ \E i \in 1..Len(hs), op \in Consuming : handle_op(i, op)
    \/ \E i \in 1..Len(hs) : handle_from(i)
    \/ arena_drop
    \/ list_drop_next
    \/ box_drop_mark
    \/ box_drop_dropper

SpecOwn == Init /\ [][NextOwn]_vars

TypeOK ==
    /\ head \in 0..Len(nodes)
    /\ arena \in {"alive", "loop", "box", "dropper", "done", "panicked"}
    /\ \A t \in Threads : pc[t] \in {"idle", "push", "store", "cas"}
    /\ Len(flags) <= MaxAllocs
    /\ Len(flags) = Len(nodes) + Cardinality(Building)

\* ---- definitions used by the properties --------------------------------
\* The destructor runs teardown made, in order.
TeardownLog == SelectSeq(log, LAMBDA e : e.at = "teardown")

\* Every handle in existence: the caller's and those stored in values.
AllHandles ==
    {hs[i] : i \in Held} \cup
    {heap[a].another : a \in {b \in 1..Len(heap) : heap[b].another # NoHandle}}

\* The liveness flag of the record in node n.
FlagOf(n) == flags[nodes[n]._value.dropped]

\* The record in node n is being or has been destroyed: teardown took n out
\* of the store and ArenaBox::drop has started on it.
Finalizing(n) ==
    /\ arena # "alive"
    /\ n \notin Range(List)
    /\ ~(arena = "box" /\ cur = n)

CheckedAccessors == {"get", "get_mut", "leak"}

\* C1: the checked accessors get, get_mut and leak of both handle types fail
\* exactly when the allocation's liveness flag is true, and otherwise return
\* a reference to the allocation's value.
C1_CheckedAccessors ==
    lastOp.op \in CheckedAccessors =>
        /\ lastOp.flag => lastOp.res = "panic"
        /\ ~lastOp.flag => (lastOp.res = "ref" /\ lastOp.hit)

C1_Witness ==
    /\ lastOp.op = "get" /\ lastOp.kind = "AllocRef"
    /\ lastOp.flag /\ lastOp.res = "panic"
    /\ arena = "dropper"

\* The object of the record in node n, and the handle stored in it (if any).
ObjectOf(n) == nodes[n]._value.object
AnotherOf(n) == IF ObjectOf(n) = Dangling THEN NoHandle ELSE heap[ObjectOf(n)].another

\* The `data` the Mock of node n was allocated with.
InitialData(n) == 10 * nodes[n]._value.dropped

\* C2: when teardown runs the destructor of a value A that holds a handle to
\* a value B allocated after A, B has been finalized first, and the checked
\* access that A's destructor makes through the handle (a Mock with an
\* AllocRef and no output makes none) fails with a contract violation, B's
\* destroyed value neither read nor written.
C2_SelfReferenceCaught ==
    \A k \in 1..Len(TeardownLog) :
        LET a == TeardownLog[k].n
            h == AnotherOf(a) IN
        (h # NoHandle /\ h.of > a /\ Mock_drop_uses(heap[ObjectOf(a)])) =>
            /\ \E j \in 1..(k - 1) : TeardownLog[j].n = h.of /\ TeardownLog[j].end = "dealloc"
            /\ TeardownLog[k].end = "panic"
            /\ heap[ObjectOf(h.of)].data = InitialData(h.of)

C2_Witness ==
    /\ arena = "panicked"
    /\ Len(TeardownLog) = 2
    /\ TeardownLog[2].end = "panic"
    /\ AnotherOf(TeardownLog[2].n).kind = "AllocMut"
    /\ AnotherOf(TeardownLog[2].n).of = TeardownLog[1].n

\* C3: the allocations a1, ..., aN of one thread are destroyed by teardown in
\* the order aN, ..., a1.
C3_LifoOrder ==
    (\A n \in NodeIds : nodes[n].by = Caller) =>
        \A k \in 1..Len(TeardownLog) : TeardownLog[k].n = Len(nodes) - k + 1

C3_Witness ==
    /\ arena = "done"
    /\ Len(nodes) = MaxAllocs
    /\ [k \in 1..Len(TeardownLog) |-> TeardownLog[k].data] = [k \in 1..MaxAllocs |-> 10 * (MaxAllocs - k + 1)]

\* The value given to the alloc call that made node n.
InsertedData(n) == IF ObjectOf(n) = Dangling THEN ZstData ELSE heap[ObjectOf(n)].data

\* C4: once every concurrent insertion has returned the store holds every
\* node exactly once, and a completed teardown has destroyed every inserted
\* value exactly once: as many destructions as insertions, the same multiset.
C4_ConcurrentCompleteness ==
    /\ (arena = "alive" /\ \A t \in Threads : pc[t] = "idle") =>
            /\ Len(List) = Len(nodes)
            /\ Range(List) = NodeIds
    /\ arena = "done" =>
            /\ Len(TeardownLog) = Len(nodes)
            /\ {TeardownLog[k].n : k \in 1..Len(TeardownLog)} = NodeIds
            /\ \A d \in Data \cup {ZstData} :
                  Cardinality({k \in 1..Len(TeardownLog) : TeardownLog[k].data = d})
                    = Cardinality({n \in NodeIds : InsertedData(n) = d})

C4_Witness ==
    /\ arena = "done"
    /\ Len(nodes) = MaxAllocs
    /\ \A t \in Threads : \E n \in NodeIds : nodes[n].by = t
    /\ TeardownLog[1].n # Len(nodes)

\* C5: the flag of an allocation is false until teardown starts destroying
\* its record and true from then on, dropped() on every handle returns just
\* that, and no flag ever goes from true to false.
C5_FlagInv ==
    /\ \A n \in NodeIds : FlagOf(n) <=> Finalizing(n)
    /\ \A h \in AllHandles :
          (IF h.kind = "AllocMut" THEN AllocMut_dropped(h) ELSE AllocRef_dropped(h))
            <=> Finalizing(h.of)

C5_MonotonicLiveness ==
    /\ []C5_FlagInv
    /\ [][\A f \in 1..Len(flags) : flags[f] => flags'[f]]_vars

C5_Witness ==
    /\ arena = "dropper"
    /\ \E g, h \in AllHandles : g.kind = "AllocMut" /\ h.kind = "AllocRef"
                                  /\ AllocMut_dropped(g) /\ ~AllocRef_dropped(h)

\* C6: the destructor of a zero-sized value runs exactly once over the life
\* of the arena, during teardown, and no memory is released for it.
C6_ZeroSizedOnce ==
    \A n \in NodeIds :
        ObjectOf(n) = Dangling =>
            LET runs == {k \in 1..Len(log) : log[k].n = n} IN
            /\ Cardinality(runs) <= 1
            /\ \A k \in runs : log[k].at = "teardown" /\ log[k].end = "nodealloc"
            /\ arena = "done" => Cardinality(runs) = 1

\* C7: while the arena is alive no value's destructor has run, no memory has
\* been released and every liveness flag is false.
C7_NothingDestroyedWhileAlive ==
    arena = "alive" =>
        /\ log = <<>>
        /\ \A a \in 1..Len(heap) : heap[a].live
        /\ \A f \in 1..Len(flags) : ~flags[f]

\* C8: get() right after alloc(v) reads v, whatever was allocated before and
\* whatever other threads allocate meanwhile.
C8_RoundTrip ==
    \A t \in Threads : got[t] # NotRead => got[t] = arg[t].data

C8_Witness ==
    /\ got[1] = 10 * ConcAllocs
    /\ pc[2] = "cas"
    /\ previous_head[2] # head

TransparentUses == {"as_ref", "as_mut", "borrow", "borrow_mut", "fmt_debug",
                    "deref", "deref_mut", "fmt_display"}

\* C9: every transparent use of a handle of either type (deref, deref_mut,
\* as_ref, as_mut, borrow, borrow_mut, Debug and Display formatting) makes the
\* liveness check: it fails when the allocation's flag is true.
C9_TransparentUsesChecked ==
    lastOp.op \in TransparentUses => (lastOp.flag => lastOp.res = "panic")

\* C10: every handle, converted and cloned ones included, refers to the object
\* and to the one flag of the record it derives from, so dropped() on it
\* returns that record's flag; no further flag exists.
C10_HandlesShareFlag ==
    /\ Len(flags) = Len(nodes) + Cardinality(Building)
    /\ \A h \in AllHandles :
          /\ h.value = ObjectOf(h.of)
          /\ h.dropped = nodes[h.of]._value.dropped
          /\ Call(h, "dropped") = Bool(FlagOf(h.of))

C10_Witness ==
    /\ \E i, j \in Held : i # j /\ hs[i].kind = "AllocRef" /\ hs[j].kind = "AllocRef"
                          /\ hs[i].of = hs[j].of /\ hs[i].of > 1
                          /\ FlagOf(hs[i].of) /\ ~FlagOf(1)

\* C11: dropped() on either handle type never fails and changes nothing: it
\* returns the allocation's flag, also once the allocation is finalized, when
\* get() on the same handle fails; flag, value, store and handles stay as
\* they are.
C11_DroppedInv ==
    /\ lastOp.op = "dropped" =>
          lastOp.res = (IF lastOp.flag THEN "true" ELSE "false")
    /\ \A i \in Held :
          FlagOf(hs[i].of) =>
              /\ Call(hs[i], "dropped") = Bool(TRUE)
              /\ Call(hs[i], "get") = Panic

C11_DroppedIsPure ==
    /\ []C11_DroppedInv
    /\ [][lastOp'.op = "dropped" =>
            UNCHANGED <<head, nodes, heap, flags, pc, node, previous_head, arg, ret,
                        got, hs, arena, cur, log>>]_vars

C11_Witness ==
    /\ lastOp.op = "dropped" /\ lastOp.kind = "AllocRef"
    /\ lastOp.flag /\ lastOp.res = "true"
    /\ arena = "done"

\* A step in which the caller gives a handle up: drop, leak, conversion.
GivesUp == \E i \in Held : hs'[i] # hs[i]

\* A step that sets a liveness flag.
SetsFlag == \E f \in 1..Len(flags) : ~flags[f] /\ flags'[f]

\* A step in which a value's destructor runs.
RunsDestructor == log' # log

\* A step of the finalization of the record the drop loop has taken.
FinalizesCur ==
    \/ /\ arena = "box" /\ arena' = "dropper"
       /\ flags' = [flags EXCEPT ![nodes[cur]._value.dropped] = TRUE]
       /\ log' = log
    \/ /\ arena = "dropper"
       /\ flags' = flags
       /\ Len(log') = Len(log) + 1
       /\ log'[Len(log')].n = cur

\* C12: handles never own the allocation: giving a handle up (drop, leak,
\* conversion) leaves the value, its flag and the store unchanged, and only
\* the arena's finalization of the owning record sets a liveness flag or runs
\* a value's destructor.
C12_HandlesNeverOwn ==
    [][/\ GivesUp => UNCHANGED <<head, nodes, heap, flags, log>>
       /\ SetsFlag => FinalizesCur
       /\ RunsDestructor => FinalizesCur]_vars

\* The records in the order teardown finalized them.
TeardownOrder == [k \in 1..Len(TeardownLog) |-> TeardownLog[k].n]

\* What a call that has returned gave back, for the record of node n.
ReturnedFor(n) == {i \in 1..Len(hs) : hs[i].of = n}

\* C13: alloc_unchecked takes the same path as alloc: whichever call made
\* it, a record that a call has returned for was inserted once, at the head,
\* above every record inserted before it; the reference alloc_unchecked
\* returns is the record's object and reads back the value; and teardown
\* finalizes the records of both calls together, last inserted first.
C13_UncheckedSamePath ==
    /\ \A i \in 1..Len(hs) :
          LET n == hs[i].of IN
          /\ i = ret[Caller] =>
                hs[i].kind = (IF arg[Caller].call = "alloc_unchecked" THEN "Raw"
                              ELSE "AllocMut")
          /\ hs[i].value = nodes[n]._value.object
          /\ nodes[n].replaced # Unpublished
          /\ nodes[n].next = nodes[n].replaced
          /\ nodes[n].next = n - 1
          /\ arena = "alive" => n \in Range(List)
    /\ (arena = "alive" /\ pc[Caller] = "idle" /\ ret[Caller] # 0) =>
          head = hs[ret[Caller]].of
    /\ got[Caller] # NotRead => got[Caller] = arg[Caller].data
    /\ \A k \in 1..Len(TeardownOrder) : TeardownOrder[k] = Len(nodes) + 1 - k
    /\ arena = "done" => Len(TeardownOrder) = Len(nodes)

C13_Witness ==
    /\ arena = "done"
    /\ Len(hs) = MaxAllocs
    /\ hs[1].kind = "AllocMut" /\ hs[2].kind = "Raw" /\ hs[3].kind = "AllocMut"
    /\ nodes[2]._value.object # Dangling
    /\ got[Caller] = arg[Caller].data

\* The flags a destructor started now would find: the record being
\* finalized and every record finalized before it are marked.
BegunAreMarked ==
    /\ FlagOf(cur)
    /\ \A k \in 1..Len(TeardownLog) : FlagOf(TeardownLog[k].n)
    /\ \A n \in NodeIds : Finalizing(n) => FlagOf(n)

\* C14: the destruction of a record sets its flag before its finalizer runs
\* any destructor logic: in every state in which the finalizer of a record is
\* about to run its destructor, the flag of that record and of every record
\* whose finalization began earlier is already true.
C14_MarkedBeforeDestructor == arena = "dropper" => BegunAreMarked

C14_Witness ==
    /\ arena = "dropper"
    /\ Len(TeardownLog) >= 1
    /\ List # <<>>
    /\ FlagOf(cur) /\ ~FlagOf(head)
    /\ heap[ObjectOf(cur)].another # NoHandle

\* The nodes a compare-exchange has published.
Published == {n \in NodeIds : nodes[n].replaced # Unpublished}

\* The nodes of insertions in progress.
InFlight == {node[t] : t \in {u \in Threads : pc[u] \in {"store", "cas"}}}

\* C15: link-then-publish: under any interleaving of inserts, every node
\* reachable from the head was published with its successor link equal to the
\* head it replaced, and following the links from the head ends at null,
\* without a cycle and without meeting a node that is unpublished or whose
\* link was not written; until teardown starts, every published node is
\* reachable.
C15_LinkThenPublish ==
    /\ \A n \in Range(List) :
          /\ n \in Published
          /\ n \notin InFlight
          /\ nodes[n].next = nodes[n].replaced
    /\ Len(List) <= Len(nodes)
    /\ \A i, j \in 1..Len(List) : i # j => List[i] # List[j]
    /\ List # <<>> => nodes[List[Len(List)]].next = Null
    /\ arena = "alive" => Range(List) = Published

C15_Witness ==
    /\ Len(List) = MaxAllocs
    /\ List[1] # MaxAllocs
    /\ nodes[List[1]].next > List[1]

\* The nodes from p down to, and without, the node s.
RECURSIVE Above(_, _, _)
Above(p, s, k) ==
    IF p = Null \/ p = s \/ k = 0 THEN <<>>
    ELSE <<p>> \o Above(nodes[p].next, s, k - 1)

\* C16 (safety half): no thread inside push_front is ever blocked, and the
\* head differs from the head a thread last read only if another thread's
\* node was published above it since.
C16_NonBlocking ==
    \A t \in Threads :
        pc[t] # "idle" =>
            /\ ENABLED push_front_step(t)
            /\ (pc[t] # "push" /\ previous_head[t] # head) =>
                  LET since == Above(head, previous_head[t], Len(nodes) + 1) IN
                  /\ since # <<>>
                  /\ \A k \in 1..Len(since) :
                        since[k] \in Published /\ nodes[since[k]].by # t
                  /\ nodes[since[Len(since)]].next = previous_head[t]

\* C16: insertion is lock-free: a compare-exchange fails only if another
\* thread's succeeded since the failing thread last read the head, so
\* whenever an insertion is in progress and threads keep taking steps, some
\* insertion completes.
C16_LockFree ==
    /\ []C16_NonBlocking
    /\ [][\A t \in Threads :
            (pc[t] = "cas" /\ pc'[t] = "store") =>
                previous_head[t] # head /\ nodes[head].by # t]_vars
    /\ \A k \in 0..MaxAllocs :
          (InFlight # {} /\ Cardinality(Published) = k) ~> (Cardinality(Published) > k)

C16_Witness ==
    /\ \E t \in Threads : pc[t] = "store" /\ nodes[node[t]].retries > 0
    /\ Cardinality(InFlight) = NumThreads

\* The insertions other threads completed since the insertion of node n
\* began: the nodes published above the head it read first.
CompletedSince(n) == Above(head, nodes[n].start, Len(nodes) + 1)

\* The retries of an insertion in progress answer, one for one at most,
\* insertions other threads completed since it began.
C17_RetryBound ==
    \A n \in InFlight :
        /\ nodes[n].retries <= Len(CompletedSince(n))
        /\ \A k \in 1..Len(CompletedSince(n)) :
              nodes[CompletedSince(n)[k]].by # nodes[n].by

\* C17: every insertion eventually returns: with each thread making finitely
\* many push_front calls and weak fairness on each thread's steps, every call
\* terminates, and the retries of a call number at most the insertions other
\* threads complete while it is in progress.
C17_InsertionTerminates ==
    /\ []C17_RetryBound
    /\ \A t \in Threads : (pc[t] # "idle") ~> (pc[t] = "idle")

C17_Witness ==
    \E n \in InFlight :
        /\ nodes[n].retries = MaxAllocs - 1
        /\ Len(CompletedSince(n)) = MaxAllocs - 1
        /\ pc[nodes[n].by] = "cas"

\* The threads with an insertion in progress.
Inserting == {t \in Threads : pc[t] \in {"store", "cas"}}

\* One node and one record per insertion, none shared.
C18_OnePerCall ==
    /\ Len(nodes) = Len(hs) + Cardinality(Inserting)
    /\ \A t, u \in Inserting : t # u => node[t] # node[u]
    /\ \A i, j \in 1..Len(hs) : i # j => hs[i].of # hs[j].of
    /\ \A n, m \in NodeIds :
          n # m =>
            /\ nodes[n]._value.dropped # nodes[m]._value.dropped
            /\ ObjectOf(n) # Dangling => ObjectOf(n) # ObjectOf(m)
    /\ Len(heap) = Cardinality({n \in NodeIds : ObjectOf(n) # Dangling})
                  + Cardinality({t \in Building : arg[t].box.object # Dangling})
    /\ Len(flags) = Len(nodes) + Cardinality(Building)
    /\ \A t \in Building :
          /\ \A n \in NodeIds : nodes[n]._value.dropped # arg[t].box.dropped
          /\ \A u \in Building : t # u => arg[t].box.dropped # arg[u].box.dropped
    /\ arena = "alive" =>
          \A i \in 1..Len(hs) :
              Cardinality({k \in 1..Len(List) : List[k] = hs[i].of}) = 1

\* C18: exactly one node and one record exist per insertion: a failed
\* compare-exchange retries with the same node and record, and the retry
\* rewrites only the node's successor link, to the head it observed; so after
\* any number of retries the store holds the record once, and no record is
\* held by two nodes.
C18_OneNodePerInsertion ==
    /\ []C18_OnePerCall
    /\ [][\A t \in Threads :
            /\ (pc[t] = "cas" /\ pc'[t] = "store") =>
                  /\ node'[t] = node[t]
                  /\ Len(nodes') = Len(nodes)
                  /\ \A n \in NodeIds :
                        /\ nodes'[n]._value = nodes[n]._value
                        /\ nodes'[n].next = nodes[n].next
            /\ (pc[t] = "store" /\ pc'[t] = "cas") =>
                  /\ node'[t] = node[t]
                  /\ nodes' = [nodes EXCEPT ![node[t]].next = previous_head[t]]]_vars

C18_Witness ==
    /\ arena = "alive"
    /\ Len(hs) = MaxAllocs
    /\ \E n \in NodeIds : nodes[n].next > n

\* The number of times teardown finalized the record of node n.
TimesFinalized(n) == Cardinality({k \in 1..Len(TeardownLog) : TeardownLog[k].n = n})

\* During teardown no record is finalized twice, and the records still to
\* finalize are those reachable from the head; when the loop has ended the
\* head is null and each record was finalized once (none for an empty arena).
C19_EachOnce ==
    /\ \A n \in NodeIds : TimesFinalized(n) <= 1
    /\ arena \in {"loop", "done"} =>
          /\ \A n \in NodeIds : TimesFinalized(n) = (IF n \in Range(List) THEN 0 ELSE 1)
          /\ Len(TeardownLog) + Len(List) = Len(nodes)
    /\ arena = "done" =>
          /\ head = Null
          /\ Len(TeardownLog) = Len(nodes)
          /\ \A n \in NodeIds : TimesFinalized(n) = 1 /\ FlagOf(n)
          /\ \A a \in 1..Len(heap) : ~heap[a].live

\* C19: arena teardown finalizes every contained record: from a store of N
\* records (N >= 0) with no insertion in flight, each iteration takes the head,
\* advances the head to the taken node's successor and destroys the taken
\* node; the loop ends with the head null after finalizing each of the N
\* records exactly once, and finalizes nothing for an empty arena.
C19_TeardownFinalizesAll ==
    /\ []C19_EachOnce
    /\ [][(arena = "loop" /\ arena' = "box") =>
            cur' = head /\ head' = nodes[head].next]_vars
    /\ [][(arena = "alive" /\ arena' # "alive") => Inserting \cup Building = {}]_vars
    /\ (arena = "loop") ~> (arena = "done")

\* Some record still in the store holds a value whose destructor will use a
\* handle to a record inserted after it, which teardown finalizes before it.
PanicAhead ==
    \E n \in Range(List) :
        /\ ObjectOf(n) # Dangling
        /\ Mock_drop_uses(heap[ObjectOf(n)])
        /\ AnotherOf(n).of > n

\* No record is finalized twice, and while the drop loop runs, when it has
\* ended and when a panic has left it, the finalized records are those no
\* longer in the store; a loop that has ended leaves the head null and every
\* record finalized once, a loop left by a panic stopped at the panicking
\* destructor.
C19_EachOnceOrAborted ==
    /\ \A n \in NodeIds : TimesFinalized(n) <= 1
    /\ arena \in {"loop", "done", "panicked"} =>
          /\ \A n \in NodeIds : TimesFinalized(n) = (IF n \in Range(List) THEN 0 ELSE 1)
          /\ Len(TeardownLog) + Len(List) = Len(nodes)
    /\ arena = "done" =>
          /\ head = Null
          /\ Len(TeardownLog) = Len(nodes)
          /\ \A n \in NodeIds : TimesFinalized(n) = 1 /\ FlagOf(n)
          /\ \A a \in 1..Len(heap) : ~heap[a].live
          /\ \A k \in 1..Len(TeardownLog) : TeardownLog[k].end # "panic"
    /\ arena = "panicked" =>
          /\ Len(TeardownLog) > 0
          /\ TeardownLog[Len(TeardownLog)].end = "panic"
          /\ \A k \in 1..(Len(TeardownLog) - 1) : TeardownLog[k].end # "panic"

\* C19 (amended): arena teardown finalizes every contained record unless a
\* value's destructor fails: from a store of N records (N >= 0) with no
\* insertion in flight, each iteration takes the head, advances the head to
\* the taken node's successor and destroys the taken node; if no destructor
\* raises a contract violation the loop ends with the head null after
\* finalizing each of the N records exactly once (nothing for an empty arena);
\* if one does, the loop is left at that record, the records finalized so far
\* finalized once each and the others left in the store.
C19_TeardownFinalizesUnlessPanic ==
    /\ []C19_EachOnceOrAborted
    /\ [][(arena = "loop" /\ arena' = "box") =>
            cur' = head /\ head' = nodes[head].next]_vars
    /\ [][(arena = "alive" /\ arena' # "alive") => Inserting \cup Building = {}]_vars
    /\ (arena = "loop" /\ ~PanicAhead) ~> (arena = "done")
    /\ (arena = "loop" /\ PanicAhead) ~> (arena = "panicked")

C19_Witness ==
    /\ arena = "done"
    /\ Len(nodes) = MaxAllocs
    /\ Len(TeardownLog) = MaxAllocs
    /\ \E n \in NodeIds : /\ AnotherOf(n) # NoHandle
                          /\ AnotherOf(n).of < n
                          /\ Mock_drop_uses(heap[ObjectOf(n)])

\* A step in which a memory reservation fails.
ReservationFails == log' # log /\ log'[Len(log')].at = "unwind"

\* No reservation was made, or failed, for a zero-sized value, and the
\* records are those of the calls that did not fail, all finalized by a
\* teardown that runs to its end.
C20_StoreIntact ==
    /\ \A k \in 1..Len(log) : log[k].at = "unwind" => log[k].data # ZstData
    /\ Len(heap) = Cardinality({n \in NodeIds : nodes[n]._value.object_layout # 0})
                  + Cardinality({t \in Building : arg[t].box.object_layout # 0})
    /\ \A n \in NodeIds : (nodes[n]._value.object_layout = 0) <=> (ObjectOf(n) = Dangling)
    /\ Len(nodes) = Len(hs) + Cardinality(Inserting)
    /\ Len(flags) = Len(nodes) + Cardinality(Building)
    /\ arena = "alive" => Range(List) = Published
    /\ arena = "done" => Len(TeardownLog) = Len(nodes)

\* C20: resource exhaustion is fatal and leaves the store unchanged: when the
\* reservation fails for a value of non-zero size, alloc / alloc_unchecked
\* return nothing, no record is inserted, and the records and flags already in
\* the arena stay as they are; no reservation is attempted for a zero-sized
\* value.
C20_ExhaustionIsFatal ==
    /\ []C20_StoreIntact
    /\ [][ReservationFails =>
            /\ UNCHANGED <<head, nodes, heap, flags, hs, pc, arena>>
            /\ arg'[Caller].ty # "Zst"
            /\ ret'[Caller] = 0]_vars

C20_Witness ==
    /\ arena = "done"
    /\ Fails = MaxFails
    /\ Len(nodes) = MaxAllocs
    /\ log[1].at # "unwind"
    /\ \E k \in 1..Len(log) : log[k].at = "unwind" /\ log[k].data = 20
    /\ \E n \in NodeIds : ObjectOf(n) = Dangling

\* The place of node n in the store, counted from the head (0: not there).
PlaceOf(n) ==
    IF n \in Range(List) THEN CHOOSE k \in 1..Len(List) : List[k] = n ELSE 0

\* The place of node n in the order of teardown's finalizations (0: not yet).
TurnOf(n) ==
    IF \E k \in 1..Len(TeardownOrder) : TeardownOrder[k] = n
    THEN CHOOSE k \in 1..Len(TeardownOrder) : TeardownOrder[k] = n
    ELSE 0

\* C21: per-thread order is preserved under concurrency: of two allocations
\* made by the same thread, whatever other threads insert in between, the
\* later one is closer to the head of the store than the earlier one, and
\* teardown finalizes it before the earlier one.
C21_PerThreadOrder ==
    \A n, m \in Published :
        (n < m /\ nodes[n].by = nodes[m].by) =>
            /\ arena = "alive" => (PlaceOf(m) # 0 /\ PlaceOf(n) # 0)
            /\ PlaceOf(n) # 0 => (PlaceOf(m) = 0 \/ PlaceOf(m) < PlaceOf(n))
            /\ PlaceOf(m) # 0 => PlaceOf(n) # 0
            /\ TurnOf(n) # 0 => (TurnOf(m) # 0 /\ TurnOf(m) < TurnOf(n))

C21_Witness ==
    /\ arena = "done"
    /\ Len(nodes) = MaxAllocs
    /\ \E n, m, p \in NodeIds :
          /\ n < m /\ nodes[n].by = nodes[m].by /\ nodes[p].by # nodes[n].by
          /\ TurnOf(m) < TurnOf(p) /\ TurnOf(p) < TurnOf(n)
    /\ \E k \in 1..Len(TeardownOrder) : TeardownOrder[k] # Len(nodes) + 1 - k

\* The record of node n is as alloc left it: not finalized, its flag false,
\* its memory not released, and still in the store.
Untouched(n) ==
    /\ TimesFinalized(n) = 0
    /\ ~FlagOf(n)
    /\ ObjectOf(n) # Dangling => heap[ObjectOf(n)].live
    /\ n \in Range(List)

\* C22: a contract violation raised in a value's destructor during teardown
\* aborts the drop loop: no record is finalized twice, nothing is finalized
\* after the failing record, and every record inserted before the failing one
\* stays unfinalized (no destructor run, memory not released) with its flag
\* false.
C22_PanicAbortsTeardown ==
    /\ \A n \in NodeIds : TimesFinalized(n) <= 1
    /\ arena = "panicked" =>
          Len(TeardownLog) > 0 /\ TeardownLog[Len(TeardownLog)].end = "panic"
    /\ \A k \in 1..Len(TeardownLog) :
          TeardownLog[k].end = "panic" =>
              /\ k = Len(TeardownLog)
              /\ arena = "panicked"
              /\ ~ENABLED teardown_step
              /\ head = nodes[TeardownLog[k].n].next
              /\ \A n \in NodeIds : n < TeardownLog[k].n => Untouched(n)

C22_Witness ==
    /\ arena = "panicked"
    /\ Len(TeardownLog) = 2
    /\ TeardownLog[2].n = 2
    /\ List = <<1>>
    /\ Untouched(1)

\* The outcome of the checked access a destructor makes through handle h.
CheckedUse(h) == Call(h, IF h.kind = "AllocMut" THEN "deref_mut" ELSE "deref")

\* The record of node n has not begun to be finalized: it is in the store, or
\* the drop loop has just taken it and ArenaBox::drop has yet to mark it.
NotYetFinalized(n) ==
    /\ TimesFinalized(n) = 0
    /\ ~FlagOf(n)
    /\ ObjectOf(n) # Dangling => heap[ObjectOf(n)].live
    /\ n \in Range(List) \/ (arena = "box" /\ cur = n)

\* C23: during teardown, the checked access that the destructor of record X
\* makes through a handle to a record Y inserted before X succeeds (and what
\* it writes through a mutable handle reaches Y's value): Y's flag is false,
\* its destructor has not run and its memory is not released; and during
\* teardown a checked access succeeds only on a record that is not yet
\* finalized.
C23_EarlierRecordAccessible ==
    /\ arena = "dropper" =>
          LET h == AnotherOf(cur) IN
          (h # NoHandle /\ h.of < cur) =>
              /\ Untouched(h.of)
              /\ CheckedUse(h).res = "ref"
              /\ CheckedUse(h).ptr = ObjectOf(h.of)
              /\ ~Mock_drop_panics(heap[ObjectOf(cur)])
    /\ \A k \in 1..Len(TeardownLog) :
          LET h == AnotherOf(TeardownLog[k].n) IN
          (h # NoHandle /\ h.of < TeardownLog[k].n) =>
              /\ TeardownLog[k].end = "dealloc"
              /\ \A j \in 1..k : TeardownLog[j].n # h.of
              /\ h.kind = "AllocMut" => heap[ObjectOf(h.of)].data = Zeroed
    /\ arena # "alive" =>
          \A h \in AllHandles :
              /\ \A op \in CheckedAccessors \cap OpsOf(h.kind) :
                    Call(h, op).res = "ref" => NotYetFinalized(h.of)
              /\ CheckedUse(h).res = "ref" => NotYetFinalized(h.of)

C23_Witness ==
    /\ arena = "done"
    /\ Len(TeardownLog) = MaxAllocs
    /\ \E k \in 1..Len(TeardownLog) :
          LET h == AnotherOf(TeardownLog[k].n) IN
          /\ h.kind = "AllocMut"
          /\ h.of < TeardownLog[k].n
          /\ TeardownLog[k].end = "dealloc"
          /\ \E j \in (k + 1)..Len(TeardownLog) :
                TeardownLog[j].n = h.of /\ TeardownLog[j].data = Zeroed

====
